---- MODULE Spec2Model ----
(***************************************************************************)
(* A model of the fireflies effect: the FireFlies manager (src/FireFly.ts) *)
(* and the FireFlyMaterial shader material (src/FireFlyMaterial.ts).       *)
(*                                                                         *)
(* JavaScript numbers that may also be undefined or NaN are records        *)
(* [k, n]; k is "num", "undefined" or "NaN".  Times are integer ticks,     *)
(* radii are integer tenths (0.1 is 1), colours are byte triples.          *)
(***************************************************************************)
EXTENDS Integers, Sequences, FiniteSets, TLC

\* ------------------------------------------------------------------ bounds
MaxGroups == 2
MaxPerGroup == 2
MaxRadius == 1
MaxDelta == 1
MaxSum == 1
MaxReplace == 1
MaxTime == 1
MaxGlow == 1

\* ------------------------------------------------------- JavaScript values
Num(n) == [k |-> "num", n |-> n]
Undefined == [k |-> "undefined", n |-> 0]
NaN == [k |-> "NaN", n |-> 0]
IsNum(a) == a.k = "num"

\* a * b : a product with undefined or NaN is NaN
Mul(a, b) == IF IsNum(a) /\ IsNum(b) THEN Num(a.n * b.n) ELSE NaN

\* a < b : a comparison with undefined or NaN is false
Lt(a, b) == IsNum(a) /\ IsNum(b) /\ a.n < b.n

\* if (x) on a texture handle: undefined and null are falsy
Truthy(x) == x \notin {"undefined", "null"}

\* new Color('#rrggbb'): six hex digits to three bytes
Color(hex) == << 16 * hex[1] + hex[2], 16 * hex[3] + hex[4], 16 * hex[5] + hex[6] >>

White == << 15, 15, 15, 15, 15, 15 >>
Preset1 == << 4, 1, 15, 2, 13, 13 >>
Preset2 == << 12, 6, 15, 2, 4, 1 >>
Preset3 == << 15, 2, 8, 14, 4, 1 >>

PickerIds == {1, 2, 3}
PresetOf(p) == IF p = 1 THEN Preset1 ELSE IF p = 2 THEN Preset2 ELSE Preset3

\* ------------------------------------------------------------ manager input
defaultProps ==
    [ omitted |-> FALSE, groupCount |-> Num(1), firefliesPerGroup |-> Num(50),
      groupRadius |-> Num(5), noiseTexture |-> "null" ]

OptNum(hi) == {Undefined} \cup {Num(n) : n \in 0..hi}

\* the props argument of the constructor: left out altogether, or an object
\* in which each field is present or missing (a missing field reads undefined)
PropsInputs ==
    { [ omitted |-> TRUE, groupCount |-> Undefined, firefliesPerGroup |-> Undefined,
        groupRadius |-> Undefined, noiseTexture |-> "undefined" ] }
    \cup
    [ omitted : {FALSE}, groupCount : OptNum(MaxGroups),
      firefliesPerGroup : OptNum(MaxPerGroup), groupRadius : OptNum(MaxRadius),
      noiseTexture : {"undefined", "noise"} ]

\* the props of the managers whose life after construction is followed: none
\* (the defaults), a full object, and one without a radius
LifeProps ==
    { [ omitted |-> TRUE, groupCount |-> Undefined, firefliesPerGroup |-> Undefined,
        groupRadius |-> Undefined, noiseTexture |-> "undefined" ],
      [ omitted |-> FALSE, groupCount |-> Num(2), firefliesPerGroup |-> Num(2),
        groupRadius |-> Num(1), noiseTexture |-> "noise" ],
      [ omitted |-> FALSE, groupCount |-> Num(1), firefliesPerGroup |-> Num(2),
        groupRadius |-> Undefined, noiseTexture |-> "undefined" ] }

\* the elements color-picker-1..3 the document holds when the manager is built
DocumentInputs == { {}, {2}, PickerIds }

\* which of those elements carry the class 'color-picker' in the document's
\* markup: all of them, or, of the three, only the first two
ClassedIn(els) == IF els = PickerIds THEN { PickerIds, {1, 2} } ELSE { els }

\* what Math.random() returns: 0 is an exact zero, 1 stands for a value in (0, 1)
RandomVals == {0, 1}

\* the frame delta the host supplies to update: elapsed ticks, never negative
Deltas == 0..MaxDelta

VARIABLES
    props, elements, classed,
    pc,
    groupCount, firefliesPerGroup, groupRadius, fireflyCount,
    uTime, uFireFlyRadius, uNoiseTexture, uColor,
    instanceMatrix, inScene,
    sip, rg, writes, gaussDraws,
    listeners, active,
    err, sumDeltas, replaceCalls,
    options, withOptions, colorHeap, mat, matErr

mgrVars ==
    << props, elements, classed, pc, groupCount, firefliesPerGroup, groupRadius, fireflyCount,
       uTime, uFireFlyRadius, uNoiseTexture, uColor, instanceMatrix, inScene,
       sip, rg, writes, gaussDraws, listeners, active,
       err, sumDeltas, replaceCalls >>

matVars == << options, withOptions, colorHeap, mat, matErr >>

vars == << mgrVars, matVars >>

\* ------------------------------------------------------------ FireFlies
\* the gl member update() reads: the class declares none and the constructor
\* assigns none, so it reads undefined
gl == Undefined

IdleSip ==
    [ groupCount |-> Undefined, firefliesPerGroup |-> Undefined,
      i |-> 0, j |-> 0, offset |-> << >>, caller |-> "none" ]
IdleRg == [ u |-> 0, v |-> 0, resampled |-> FALSE ]

ZeroAxis == [ k |-> "zero", draw |-> 0, r |-> 0 ]

\* an instance matrix as InstancedMesh allocates it: sixteen zeros
ZeroMatrix == [ diag |-> 0, pos |-> << ZeroAxis, ZeroAxis, ZeroAxis >> ]

\* new InstancedMesh(geometry, material, count): a Float32Array of count * 16,
\* of length 0 when count is NaN
NewInstanceMatrix(count) ==
    [ idx \in (IF IsNum(count) THEN 0..(count.n - 1) ELSE {}) |-> ZeroMatrix ]

NoMatrices == [ idx \in {} |-> ZeroMatrix ]
NoWrites == [ idx \in {} |-> 0 ]

\* the manager before its constructor runs: the field initialisers
MgrFields ==
    /\ pc = "new"
    /\ groupCount = Undefined
    /\ firefliesPerGroup = Undefined
    /\ groupRadius = Undefined
    /\ fireflyCount = Undefined
    /\ uTime = 0
    /\ uFireFlyRadius = 1
    /\ uNoiseTexture = "emptyTexture"
    /\ uColor = Color(White)
    /\ instanceMatrix = NoMatrices
    /\ inScene = FALSE
    /\ sip = IdleSip
    /\ rg = IdleRg
    /\ writes = NoWrites
    /\ gaussDraws = 0
    /\ listeners = {}
    /\ active = {}
    /\ err = "none"
    /\ sumDeltas = 0
    /\ replaceCalls = 0

MgrInit ==
    /\ props \in LifeProps
    /\ elements \in DocumentInputs
    /\ classed \in ClassedIn(elements)
    /\ MgrFields

BuildProps ==
    /\ props \in PropsInputs
    /\ elements \in DocumentInputs
    /\ classed \in ClassedIn(elements)
    /\ MgrFields

\* constructor(_scene, props = defaultProps): the default stands in only when
\* the whole argument is left out
EffectiveProps(p) == IF p.omitted THEN defaultProps ELSE p

\* InstanceIndex with the loop counters exchanged
InstanceIndexSwapped(i, perGroup, j) == j * perGroup + i

\* const index = i * firefliesPerGroup + j
InstanceIndex(i, perGroup, j) == i * perGroup + j

\* randomGaussian() * this.groupRadius, for the sample of the draw-th completed
\* Gaussian draw: NaN when the radius is not a number, 0 when it is 0
AxisVal(draw, radius) ==
    IF ~IsNum(radius) THEN [ k |-> "NaN", draw |-> 0, r |-> 0 ]
    ELSE IF radius.n = 0 THEN ZeroAxis
    ELSE [ k |-> "gauss", draw |-> draw, r |-> radius.n ]

\* setMatrixAt(index, matrix): a write past the end of the typed array is dropped
SetMatrixAt(matrices, index, position) ==
    IF index \in DOMAIN matrices
    THEN [ matrices EXCEPT ![index] = [ diag |-> 1, pos |-> position ] ]
    ELSE matrices

CountWrite(w, index) ==
    [ idx \in DOMAIN w \cup {index} |->
        IF idx = index THEN (IF idx \in DOMAIN w THEN w[idx] + 1 ELSE 1) ELSE w[idx] ]

\* the rest of the constructor once setInitialPositions returns:
\* scene.add(fireflyParticles) and setupEventListeners()
SceneAfter(finished, caller) == IF finished /\ caller = "ctor" THEN TRUE ELSE inScene
ListenersAfter(finished, caller) ==
    IF finished /\ caller = "ctor" THEN elements ELSE listeners

\* setInitialPositions(groupCount, firefliesPerGroup) up to its first
\* Math.random() call, or to its return when the loops have no iteration
BeginPlacement(gc, perGroup, caller) ==
    LET runs == Lt(Num(0), gc) /\ Lt(Num(0), perGroup) IN
    /\ writes' = NoWrites
    /\ rg' = IdleRg
    /\ sip' = IF runs
              THEN [ groupCount |-> gc, firefliesPerGroup |-> perGroup,
                     i |-> 0, j |-> 0, offset |-> << >>, caller |-> caller ]
              ELSE IdleSip
    /\ pc' = IF runs THEN "randomU" ELSE "ready"
    /\ inScene' = SceneAfter(~runs, caller)
    /\ listeners' = ListenersAfter(~runs, caller)

\* new FireFlies(scene, props)
Construct ==
    /\ pc = "new"
    /\ LET p == EffectiveProps(props) IN
       /\ groupCount' = p.groupCount
       /\ groupRadius' = p.groupRadius
       /\ firefliesPerGroup' = p.firefliesPerGroup
       /\ uNoiseTexture' = IF Truthy(p.noiseTexture) THEN p.noiseTexture ELSE uNoiseTexture
       /\ fireflyCount' = Mul(p.groupCount, p.firefliesPerGroup)
       /\ instanceMatrix' = NewInstanceMatrix(Mul(p.groupCount, p.firefliesPerGroup))
       /\ BeginPlacement(p.groupCount, p.firefliesPerGroup, "ctor")
    /\ UNCHANGED matVars
    /\ UNCHANGED << props, elements, classed, uTime, uFireFlyRadius, uColor, gaussDraws, active,
                    err, sumDeltas, replaceCalls >>

\* RandomU with a single draw in place of the loop: a zero is kept
RandomUOnce(x) ==
    /\ pc = "randomU"
    /\ rg' = [ rg EXCEPT !.u = x ]
    /\ pc' = "randomV"
    /\ UNCHANGED matVars
    /\ UNCHANGED << props, elements, classed, groupCount, firefliesPerGroup, groupRadius,
                    fireflyCount, uTime, uFireFlyRadius, uNoiseTexture, uColor,
                    instanceMatrix, inScene, sip, writes, gaussDraws, listeners, active,
                    err, sumDeltas, replaceCalls >>

\* randomGaussian: while (u === 0) u = Math.random(), with x the value returned
RandomU(x) ==
    /\ pc = "randomU"
    /\ rg' = [ rg EXCEPT !.u = x, !.resampled = (@ \/ x = 0) ]
    /\ pc' = IF x = 0 THEN "randomU" ELSE "randomV"
    /\ UNCHANGED matVars
    /\ UNCHANGED << props, elements, classed, groupCount, firefliesPerGroup, groupRadius,
                    fireflyCount, uTime, uFireFlyRadius, uNoiseTexture, uColor,
                    instanceMatrix, inScene, sip, writes, gaussDraws, listeners, active,
                    err, sumDeltas, replaceCalls >>

\* randomGaussian: while (v === 0) v = Math.random(), with x the value returned
RandomV(x) ==
    /\ pc = "randomV"
    /\ rg' = [ rg EXCEPT !.v = x, !.resampled = (@ \/ x = 0) ]
    /\ pc' = IF x = 0 THEN "randomV" ELSE "formula"
    /\ UNCHANGED matVars
    /\ UNCHANGED << props, elements, classed, groupCount, firefliesPerGroup, groupRadius,
                    fireflyCount, uTime, uFireFlyRadius, uNoiseTexture, uColor,
                    instanceMatrix, inScene, sip, writes, gaussDraws, listeners, active,
                    err, sumDeltas, replaceCalls >>

\* randomGaussian's Box-Muller formula and return, then setInitialPositions up
\* to the next Math.random() call: the offset component, and after the third
\* one the matrix write and the loop steps, to the method's return
Formula ==
    /\ pc = "formula"
    /\ LET offset == Append(sip.offset, AxisVal(gaussDraws + 1, groupRadius))
           index == InstanceIndex(sip.i, sip.firefliesPerGroup.n, sip.j)
           placed == Len(offset) = 3
           moreJ == Lt(Num(sip.j + 1), sip.firefliesPerGroup)
           moreI == Lt(Num(sip.i + 1), sip.groupCount)
           finished == placed /\ ~moreJ /\ ~moreI
       IN
       /\ gaussDraws' = gaussDraws + 1
       /\ instanceMatrix' = IF placed THEN SetMatrixAt(instanceMatrix, index, offset)
                            ELSE instanceMatrix
       /\ writes' = IF placed THEN CountWrite(writes, index) ELSE writes
       /\ sip' = IF finished THEN IdleSip
                 ELSE IF ~placed THEN [ sip EXCEPT !.offset = offset ]
                 ELSE IF moreJ THEN [ sip EXCEPT !.offset = << >>, !.j = @ + 1 ]
                 ELSE [ sip EXCEPT !.offset = << >>, !.j = 0, !.i = @ + 1 ]
       /\ rg' = IdleRg
       /\ pc' = IF finished THEN "ready" ELSE "randomU"
       /\ inScene' = SceneAfter(finished, sip.caller)
       /\ listeners' = ListenersAfter(finished, sip.caller)
    /\ UNCHANGED matVars
    /\ UNCHANGED << props, elements, classed, groupCount, firefliesPerGroup, groupRadius,
                    fireflyCount, uTime, uFireFlyRadius, uNoiseTexture, uColor, active,
                    err, sumDeltas, replaceCalls >>

\* update with a stray write to the glow radius uniform ahead of the clock's
updateWrongUniform(d) ==
    /\ pc = "ready"
    /\ sumDeltas + d <= MaxSum
    /\ sumDeltas' = sumDeltas + d
    /\ uFireFlyRadius' = uFireFlyRadius + 1
    /\ IF gl.k = "undefined"
       THEN err' = "TypeError" /\ uTime' = uTime
       ELSE err' = "none" /\ uTime' = uTime + d
    /\ UNCHANGED matVars
    /\ UNCHANGED << props, elements, classed, pc, groupCount, firefliesPerGroup, groupRadius,
                    fireflyCount, uNoiseTexture, uColor, instanceMatrix,
                    inScene, sip, rg, writes, gaussDraws, listeners, active, replaceCalls >>

\* update clearing the instance matrices each frame ahead of the clock's write
updateMovesInstances(d) ==
    /\ pc = "ready"
    /\ sumDeltas + d <= MaxSum
    /\ sumDeltas' = sumDeltas + d
    /\ instanceMatrix' = [ idx \in DOMAIN instanceMatrix |-> ZeroMatrix ]
    /\ IF gl.k = "undefined"
       THEN err' = "TypeError" /\ uTime' = uTime
       ELSE err' = "none" /\ uTime' = uTime + d
    /\ UNCHANGED matVars
    /\ UNCHANGED << props, elements, classed, pc, groupCount, firefliesPerGroup, groupRadius,
                    fireflyCount, uFireFlyRadius, uNoiseTexture, uColor,
                    inScene, sip, rg, writes, gaussDraws, listeners, active, replaceCalls >>

\* update(), called by the host's render loop in a frame whose delta is d:
\* this.Uniforms.uTime.value += this.gl.delta
update(d) ==
    /\ pc = "ready"
    /\ sumDeltas + d <= MaxSum
    /\ sumDeltas' = sumDeltas + d
    /\ IF gl.k = "undefined"
       THEN err' = "TypeError" /\ uTime' = uTime
       ELSE err' = "none" /\ uTime' = uTime + d
    /\ UNCHANGED matVars
    /\ UNCHANGED << props, elements, classed, pc, groupCount, firefliesPerGroup, groupRadius,
                    fireflyCount, uFireFlyRadius, uNoiseTexture, uColor, instanceMatrix,
                    inScene, sip, rg, writes, gaussDraws, listeners, active, replaceCalls >>

\* const colorPicker = document.querySelectorAll('.color-picker')
colorPicker == elements \cap classed

\* the click listener without its colorPicker.forEach(... remove('active'))
clickKeepsActive(p) ==
    /\ pc = "ready"
    /\ p \in listeners
    /\ active' = active \cup {p}
    /\ uColor' = Color(PresetOf(p))
    /\ err' = "none"
    /\ UNCHANGED matVars
    /\ UNCHANGED << props, elements, classed, pc, groupCount, firefliesPerGroup, groupRadius,
                    fireflyCount, uTime, uFireFlyRadius, uNoiseTexture, instanceMatrix,
                    inScene, sip, rg, writes, gaussDraws, listeners, sumDeltas,
                    replaceCalls >>

\* the click listener setupEventListeners put on element color-picker-p
click(p) ==
    /\ pc = "ready"
    /\ p \in listeners
    /\ active' = (active \ colorPicker) \cup {p}
    /\ uColor' = Color(PresetOf(p))
    /\ err' = "none"
    /\ UNCHANGED matVars
    /\ UNCHANGED << props, elements, classed, pc, groupCount, firefliesPerGroup, groupRadius,
                    fireflyCount, uTime, uFireFlyRadius, uNoiseTexture, instanceMatrix,
                    inScene, sip, rg, writes, gaussDraws, listeners, sumDeltas,
                    replaceCalls >>

\* setInitialPositions(gc, perGroup) called again on a built manager (the
\* method is public)
setInitialPositions(gc, perGroup) ==
    /\ pc = "ready"
    /\ replaceCalls < MaxReplace
    /\ replaceCalls' = replaceCalls + 1
    /\ BeginPlacement(gc, perGroup, "public")
    /\ err' = "none"
    /\ UNCHANGED matVars
    /\ UNCHANGED << props, elements, classed, groupCount, firefliesPerGroup, groupRadius,
                    fireflyCount, uTime, uFireFlyRadius, uNoiseTexture, uColor,
                    instanceMatrix, gaussDraws, active, sumDeltas >>

\* ------------------------------------------------------- FireFlyMaterial
Mats == {"a", "b"}

\* the Color objects of the heap: the one the caller put in options.uColor,
\* the one each constructor makes when options has none, and one the caller
\* keeps to pass to setColor
ColorObjs == {"optColor", "fresh_a", "fresh_b", "callerColor"}
FreshOf(m) == IF m = "a" THEN "fresh_a" ELSE "fresh_b"

Palette == {White, Preset3}

TimeVals == 0..MaxTime
GlowVals == (0 - MaxGlow)..MaxGlow

\* constructor(options = {}): no field given
NoOptions == [ uTime |-> Undefined, uFireFlyRadius |-> Undefined, uColor |-> "undefined" ]

OptionsInputs ==
    { NoOptions,
      [ uTime |-> Undefined, uFireFlyRadius |-> Undefined, uColor |-> "optColor" ],
      [ uTime |-> Num(1), uFireFlyRadius |-> Num(2), uColor |-> "optColor" ] }

\* const { uTime = 0, uFireFlyRadius = 0.1, uColor = new Color('#ffffff') } =
\* options, and the uniforms built from them; fresh is the Color made for the
\* default
FireFlyMaterial(opts, fresh) ==
    [ uTime |-> IF opts.uTime.k = "undefined" THEN 0 ELSE opts.uTime.n,
      uFireFlyRadius |-> IF opts.uFireFlyRadius.k = "undefined" THEN 1
                         ELSE opts.uFireFlyRadius.n,
      uColor |-> IF opts.uColor = "undefined" THEN fresh ELSE opts.uColor ]

\* the methods the class defines
MaterialMethods == {"updateTime", "setColor", "setFireFlyRadius"}

\* what the shader reads as uColor of material m
ReadColor(m) == colorHeap[mat[m].uColor]

MatFields ==
    /\ colorHeap \in { [ o \in ColorObjs |-> IF o = "optColor" THEN Color(c) ELSE Color(White) ] :
                       c \in Palette }
    /\ mat = [ m \in Mats |->
                 FireFlyMaterial(IF withOptions[m] THEN options ELSE NoOptions, FreshOf(m)) ]
    /\ matErr = "none"

MatInit ==
    /\ options \in OptionsInputs
    /\ withOptions \in [ Mats -> BOOLEAN ]
    /\ MatFields

\* updateTime adding its argument to the clock, as the manager's update does
updateTimeAdds(m, t) ==
    /\ mat' = [ mat EXCEPT ![m].uTime = @ + t ]
    /\ matErr' = "none"
    /\ UNCHANGED << options, withOptions, colorHeap >>
    /\ UNCHANGED mgrVars

\* updateTime(time)
updateTime(m, t) ==
    /\ mat' = [ mat EXCEPT ![m].uTime = t ]
    /\ matErr' = "none"
    /\ UNCHANGED << options, withOptions, colorHeap >>
    /\ UNCHANGED mgrVars

\* setColor copying the wrong way round: color.copy(uniform value)
setColorBackwards(m, src) ==
    /\ colorHeap' = [ colorHeap EXCEPT ![src] = colorHeap[mat[m].uColor] ]
    /\ matErr' = "none"
    /\ UNCHANGED << options, withOptions, mat >>
    /\ UNCHANGED mgrVars

\* setColor(color), color being the heap object src:
\* this.uniforms.uColor.value.copy(color)
setColor(m, src) ==
    /\ colorHeap' = [ colorHeap EXCEPT ![mat[m].uColor] = colorHeap[src] ]
    /\ matErr' = "none"
    /\ UNCHANGED << options, withOptions, mat >>
    /\ UNCHANGED mgrVars

\* setFireFlyRadius(radius)
setFireFlyRadius(m, r) ==
    /\ mat' = [ mat EXCEPT ![m].uFireFlyRadius = r ]
    /\ matErr' = "none"
    /\ UNCHANGED << options, withOptions, colorHeap >>
    /\ UNCHANGED mgrVars

\* fireflyMaterial.setRadius(radius), as the README calls it: the class has
\* no member of that name, so the call raises a TypeError
setRadius(m, r) ==
    /\ IF "setRadius" \in MaterialMethods
       THEN mat' = [ mat EXCEPT ![m].uFireFlyRadius = r ] /\ matErr' = "none"
       ELSE mat' = mat /\ matErr' = "TypeError"
    /\ UNCHANGED << options, withOptions, colorHeap >>
    /\ UNCHANGED mgrVars

\* the caller's new Color(hex), kept to hand to setColor
newColor(hex) ==
    /\ colorHeap' = [ colorHeap EXCEPT !["callerColor"] = Color(hex) ]
    /\ UNCHANGED << options, withOptions, mat, matErr >>
    /\ UNCHANGED mgrVars

\* ------------------------------------------------------------ specifications
\* the materials the manager's specification leaves alone
MatIdle ==
    /\ options = NoOptions
    /\ withOptions = [ m \in Mats |-> FALSE ]
    /\ colorHeap = [ o \in ColorObjs |-> Color(White) ]
    /\ mat = [ m \in Mats |-> FireFlyMaterial(NoOptions, FreshOf(m)) ]
    /\ matErr = "none"

\* the manager the materials' specification leaves alone
MgrIdle ==
    /\ props = [ omitted |-> TRUE, groupCount |-> Undefined, firefliesPerGroup |-> Undefined,
                 groupRadius |-> Undefined, noiseTexture |-> "undefined" ]
    /\ elements = {}
    /\ classed = {}
    /\ MgrFields

Init == MgrInit /\ MatIdle

MathRandom == \E x \in RandomVals : RandomU(x) \/ RandomV(x)
Frame == \E d \in Deltas : update(d)
Clicks == \E p \in PickerIds : click(p)
Replace ==
    \E gc \in 0..MaxGroups, perGroup \in 0..MaxPerGroup :
        setInitialPositions(Num(gc), Num(perGroup))

Next ==
    \/ Construct
    \/ MathRandom
    \/ Formula
    \/ Frame
    \/ Clicks
    \/ Replace

Spec == Init /\ [][Next]_vars

MatSpecInit == MgrIdle /\ MatInit

Tick == \E m \in Mats, t \in TimeVals : updateTime(m, t)
Paint == \E m \in Mats, src \in ColorObjs : setColor(m, src)
Glow == \E m \in Mats, r \in GlowVals : setFireFlyRadius(m, r)
ReadmeGlow == \E m \in Mats, r \in GlowVals : setRadius(m, r)
CallerColor == \E hex \in Palette : newColor(hex)

MatNext ==
    \/ Tick
    \/ Paint
    \/ Glow
    \/ ReadmeGlow
    \/ CallerColor

MatSpec == MatSpecInit /\ [][MatNext]_vars

\* the construction alone, for every props argument; the constructor runs to
\* its end, the source of random numbers returning a non-zero value again and
\* again
NonZeroDraw == \E x \in RandomVals \ {0} : RandomU(x) \/ RandomV(x)

BuildNext ==
    \/ Construct
    \/ MathRandom
    \/ Formula

BuildInit == BuildProps /\ MatIdle

BuildSpec ==
    /\ BuildInit
    /\ [][BuildNext]_vars
    /\ WF_vars(Construct)
    /\ WF_vars(NonZeroDraw)
    /\ WF_vars(Formula)

\* a manager built with the default props beside the materials, for the clocks
ClockInit == MgrIdle /\ MatIdle

ClockNext ==
    \/ Construct
    \/ MathRandom
    \/ Formula
    \/ Frame
    \/ Tick

ClockSpec == ClockInit /\ [][ClockNext]_vars

\* ------------------------------------------------------------------ claims
Given(x, dflt) == IF x.k = "undefined" THEN Num(dflt) ELSE x
Placing == pc \in {"randomU", "randomV", "formula"}
Pool(n) == 0..(n - 1)

\* C1: for groupCount, firefliesPerGroup >= 1 the constructor makes a pool of
\* groupCount * firefliesPerGroup instances and its placement loop writes the
\* transform of every index of the pool exactly once, in the order of
\* i * firefliesPerGroup + j, and writes no index outside the pool.
C1_PlacementCoversPool ==
    (replaceCalls = 0 /\ pc # "new" /\ IsNum(groupCount) /\ IsNum(firefliesPerGroup)
       /\ groupCount.n >= 1 /\ firefliesPerGroup.n >= 1)
    => /\ fireflyCount = Num(groupCount.n * firefliesPerGroup.n)
       /\ DOMAIN instanceMatrix = Pool(groupCount.n * firefliesPerGroup.n)
       /\ DOMAIN writes \subseteq DOMAIN instanceMatrix
       /\ \A idx \in DOMAIN writes : writes[idx] = 1 /\ instanceMatrix[idx].diag = 1
       /\ Placing => DOMAIN writes = Pool(sip.i * firefliesPerGroup.n + sip.j)
       /\ pc = "ready" => DOMAIN writes = DOMAIN instanceMatrix

C1_Witness ==
    /\ pc = "ready" /\ replaceCalls = 0
    /\ groupCount = Num(2) /\ firefliesPerGroup = Num(2)
    /\ DOMAIN writes = 0..3
    /\ \A idx \in 0..3 : writes[idx] = 1

\* C2: after N updates with deltas d1..dN the time uniform is d1 + ... + dN.
C2_TimeIsSumOfDeltas == pc = "ready" => uTime = sumDeltas

\* C3: the per-frame update never raises (err is the outcome of the latest
\* call on the manager, and update is the one call that can raise).
C3_UpdateNeverRaises == err = "none"

\* C4: each props field left out takes its default (groupCount 1,
\* firefliesPerGroup 50, groupRadius 5, no noise texture), each field given is
\* used, and the instance count is a non-negative integer.
C4_FieldDefaults ==
    (pc # "new" /\ ~props.omitted)
    => /\ groupCount = Given(props.groupCount, 1)
       /\ firefliesPerGroup = Given(props.firefliesPerGroup, 50)
       /\ groupRadius = Given(props.groupRadius, 5)
       /\ uNoiseTexture = (IF props.noiseTexture = "undefined" THEN "emptyTexture"
                           ELSE props.noiseTexture)
       /\ IsNum(fireflyCount) /\ fireflyCount.n >= 0
       /\ fireflyCount = Mul(Given(props.groupCount, 1), Given(props.firefliesPerGroup, 50))

\* C5: update leaves the instance count, every instance matrix, the colour,
\* glow radius and noise texture uniforms and the stored groupCount,
\* firefliesPerGroup and groupRadius as they were.
C5_UpdateFrame ==
    [][ (\E d \in Deltas : update(d))
        => UNCHANGED << fireflyCount, instanceMatrix, uColor, uFireFlyRadius,
                        uNoiseTexture, groupCount, firefliesPerGroup, groupRadius >> ]_vars

C5_Witness ==
    /\ err = "TypeError" /\ sumDeltas # 0
    /\ uColor = Color(Preset2)
    /\ 0 \in DOMAIN instanceMatrix /\ instanceMatrix[0].diag = 1

\* C6: reading a material's colour uniform after setColor(c) gives the value
\* of c, whatever calls came before.
C6_SetColorRoundTrip ==
    [][ \A m \in Mats, src \in ColorObjs :
          setColor(m, src) => ReadColor(m)' = colorHeap[src] ]_vars

C6_Witness ==
    /\ mat["a"].uColor = "fresh_a"
    /\ colorHeap["callerColor"] = Color(Preset3)
    /\ ReadColor("a") = Color(Preset3)
    /\ mat["a"].uTime # 0 /\ mat["a"].uFireFlyRadius # 1

\* C7: the material has a setter setRadius(r) that sets the glow radius uniform
\* to r for every r, raises nothing and leaves time and colour alone.
C7_SetRadiusSets ==
    [][ \A m \in Mats, r \in GlowVals :
          setRadius(m, r)
          => /\ mat'[m].uFireFlyRadius = r
             /\ matErr' = "none"
             /\ mat'[m].uTime = mat[m].uTime
             /\ ReadColor(m)' = ReadColor(m) ]_vars

\* C8 as stated: once the constructor has returned, no operation changes any
\* instance matrix.
C8_PlacementOnce == [][ inScene => instanceMatrix' = instanceMatrix ]_vars

\* C8: once the constructor has returned, update and the colour clicks change
\* no instance matrix; a matrix changes only inside a later call of the public
\* setInitialPositions.
C8_OnlyReplacementMoves ==
    [][ /\ (\E d \in Deltas : update(d)) => instanceMatrix' = instanceMatrix
        /\ (\E p \in PickerIds : click(p)) => instanceMatrix' = instanceMatrix
        /\ (inScene /\ instanceMatrix' # instanceMatrix) => sip.caller = "public" ]_vars

C8_Witness ==
    /\ pc = "ready" /\ replaceCalls = 1
    /\ sumDeltas # 0 /\ active # {}
    /\ fireflyCount = Num(4)
    /\ instanceMatrix[0].pos[1].k = "gauss" /\ instanceMatrix[0].pos[1].draw > 12
    /\ instanceMatrix[3].pos[1].draw = 10

\* C9 as stated: no operation lowers a time uniform.
C9_TimeMonotone ==
    [][ uTime' >= uTime /\ \A m \in Mats : mat'[m].uTime >= mat[m].uTime ]_vars

\* C9: update, whose delta is never negative, never lowers the manager's time uniform;
\* updateTime(t) sets the material's to t, so it does not lower it when t is
\* not below the value it had, and that value is lowered by nothing but an
\* updateTime(t) with a smaller t.
C9_TimeFollowsWrites ==
    [][ /\ (\E d \in Deltas : update(d)) => uTime' >= uTime
        /\ \A m \in Mats, t \in TimeVals :
             updateTime(m, t)
             => /\ mat'[m].uTime = t
                /\ t >= mat[m].uTime => mat'[m].uTime >= mat[m].uTime
        /\ \A m \in Mats :
             mat'[m].uTime < mat[m].uTime
             => \E t \in TimeVals : t < mat[m].uTime /\ updateTime(m, t) ]_vars

C9_Witness ==
    /\ err = "TypeError" /\ sumDeltas > 0
    /\ mat["a"].uTime = 1 /\ mat["b"].uTime = 0

\* C10: the u and v that reach the Box-Muller formula are both non-zero; a
\* draw that has begun reaches the formula when the source of random numbers
\* keeps returning non-zero values; every axis of every instance has a draw of
\* its own, 3 * groupCount * firefliesPerGroup in a construction.
C10_GaussianDraws ==
    /\ [](pc = "formula" => rg.u # 0 /\ rg.v # 0)
    /\ [](pc \in {"randomU", "randomV"} => <>(pc = "formula"))
    /\ []((pc = "ready" /\ replaceCalls = 0 /\ IsNum(fireflyCount))
            => /\ gaussDraws = 3 * fireflyCount.n
               /\ \A idx \in DOMAIN instanceMatrix : \A a \in 1..3 :
                    instanceMatrix[idx].pos[a] = AxisVal(3 * idx + a, groupRadius))

C10_Witness ==
    /\ pc = "formula" /\ rg.resampled /\ rg.u # 0 /\ rg.v # 0
    /\ sip.caller = "ctor" /\ sip.i = 1 /\ sip.j = 1 /\ Len(sip.offset) = 2
    /\ gaussDraws = 11
    /\ instanceMatrix[2].pos = << AxisVal(7, Num(1)), AxisVal(8, Num(1)), AxisVal(9, Num(1)) >>

\* the three preset elements exist and carry the class 'color-picker'
PresetsPresent == elements = PickerIds /\ classed = PickerIds

\* C11: with the three preset elements in the document, each carrying the class
\* 'color-picker': the manager starts with no preset marked 'active' and a
\* white colour uniform; at every moment either that is still so or exactly one
\* preset is marked and the uniform holds that preset's colour; a click on
\* preset p leaves p the only marked preset, sets the uniform to p's colour and
\* leaves time, radius, noise texture and the instance matrices alone; and no
\* step other than a click changes the marks or the colour.
C11_ColourPresets ==
    /\ PresetsPresent => active = {} /\ uColor = Color(White)
    /\ [](PresetsPresent =>
            \/ active = {} /\ uColor = Color(White)
            \/ \E p \in PickerIds : active = {p} /\ uColor = Color(PresetOf(p)))
    /\ [][\A p \in PickerIds :
            PresetsPresent /\ click(p) =>
                /\ active' = {p}
                /\ uColor' = Color(PresetOf(p))
                /\ UNCHANGED << uTime, uFireFlyRadius, uNoiseTexture, instanceMatrix,
                                fireflyCount, inScene >>]_vars
    /\ [][(\A p \in PickerIds : ~click(p)) => UNCHANGED << active, uColor >>]_vars

\* with the three presets present, after a frame and then a click on preset 3:
\* only 3 is marked and the uniform is orange
C11_Witness ==
    /\ PresetsPresent
    /\ pc = "ready"
    /\ active = {3}
    /\ uColor = Color(Preset3)
    /\ sumDeltas # 0
    /\ err = "none"

\* C12: setColor(c) on material m changes no Color but m's own uniform: the
\* argument c keeps its value, the Color object the caller put in
\* options.uColor keeps its value, and every other material's colour uniform
\* reads as before, also when both were constructed from the same options.
C12_SetColorNoAliasing ==
    [][\A m \in Mats, src \in ColorObjs :
         setColor(m, src) =>
             /\ colorHeap'[src] = colorHeap[src]
             /\ colorHeap'["optColor"] = colorHeap["optColor"]
             /\ \A other \in Mats \ {m} : ReadColor(other)' = ReadColor(other)]_vars

====
